---- MODULE Spec2Model ----
(***************************************************************************)
(* Model of the trace generator (generate_swebench_trace.py) and of the    *)
(* local command executor (minisweagent/environments/local.py).            *)
(*                                                                         *)
(* Text is modelled as a sequence of tokens.  A token is either one of the *)
(* multi-character markers the code searches for (the bash fence, the      *)
(* closing fence, the two execute_time tags), a whitespace character, a    *)
(* single character of a number, or a whole word.                          *)
(***************************************************************************)
EXTENDS Integers, Sequences, FiniteSets, TLC

VARIABLES
    messages,   \* process_trajectory_file: data.get('messages', [])
    job_id,     \* process_trajectory_file: the job_id argument
    i,          \* process_trajectory_file: loop index (0-based, as in the code)
    trace,      \* process_trajectory_file: the list of events built so far
    origin,     \* history: origin[k] is the index of the turn that emitted trace[k]
    pc,         \* process_trajectory_file: "idle" | "loop" | "done"
    result,     \* process_trajectory_file: the returned dict, once pc = "done"
    listing,    \* main: what output_dir.iterdir() yields, name -> entry
    job_dirs,   \* main: the sorted list of job directories
    idx,        \* main: the enumerate counter of the batch loop
    traces,     \* main: the list of trace entries collected
    log,        \* main: what has been printed
    outfile,    \* main: lines of swebench_trace.jsonl
    mpc,        \* main: "idle" | "start" | "loop" | "written"
    call,       \* execute: the arguments and configuration of the call
    child,      \* execute: the child process (how long it runs, its exit code)
    elapsed,    \* execute: time the child has been running
    spawned,    \* execute: number of child processes spawned so far
    epc,        \* execute: "idle" | "called" | "running" | "returned" | "raised"
    eresult     \* execute: the returned dict or the exception raised

vars == <<messages, job_id, i, trace, origin, pc, result,
          listing, job_dirs, idx, traces, log, outfile, mpc,
          call, child, elapsed, spawned, epc, eresult>>

traceVars == <<messages, job_id, i, trace, origin, pc, result>>
mainVars  == <<listing, job_dirs, idx, traces, log, outfile, mpc>>
execVars  == <<call, child, elapsed, spawned, epc, eresult>>

(***************************************************************************)
(* Bounds                                                                  *)
(***************************************************************************)
MaxTurns == 3
MaxJobs  == 4
MaxRun   == 3

(***************************************************************************)
(* Tokens                                                                  *)
(***************************************************************************)
\* the three-backquote fence tagged bash, and the bare three-backquote fence
FenceBash == "[fence]bash"
Fence     == "[fence]"
NL        == "[newline]"
SP        == " "
StartTag  == "<execute_time>"
EndTag    == "</execute_time>"
\* what is left of the start tag when its last character is cut off
CutStartTag == "<execute_time"

Whitespace == {NL, SP}
Digits     == {"0", "1", "2", "5"}

DigitVal(c) ==
    CASE c = "0" -> 0 [] c = "1" -> 1 [] c = "2" -> 2 [] c = "3" -> 3 [] c = "4" -> 4
      [] c = "5" -> 5 [] c = "6" -> 6 [] c = "7" -> 7 [] c = "8" -> 8 [] c = "9" -> 9

\* the literal tool_call_needed_next of an LLM call that triggers nothing
NO == "NO"

(***************************************************************************)
(* extract_bash_command_type                                               *)
(***************************************************************************)
\* re.search of FenceBash NL (.*?) NL Fence with re.DOTALL: the leftmost opening
\* (FenceBash, NL) that some later (NL, Fence) closes, and the nearest such
\* closing.  As text, (NL, FenceBash) begins with (NL, Fence) and closes too.
IsOpen(content, p) ==
    /\ p + 1 <= Len(content)
    /\ content[p] = FenceBash
    /\ content[p + 1] = NL

IsClose(content, q) ==
    /\ q + 1 <= Len(content)
    /\ content[q] = NL
    /\ content[q + 1] \in {Fence, FenceBash}

Closings(content, p) == {q \in (p + 2)..Len(content) : IsClose(content, q)}

Openings(content) ==
    {p \in 1..Len(content) : IsOpen(content, p) /\ Closings(content, p) # {}}

Min(S) == CHOOSE x \in S : \A y \in S : x <= y

\* match.group(1): the tokens strictly between the opening and the closing
MatchGroup(content) ==
    LET p == Min(Openings(content))
        q == Min(Closings(content, p))
    IN  SubSeq(content, p + 2, q - 1)

\* command.split(): the words of the command; a word is one token here
Split(command) == SelectSeq(command, LAMBDA t : t \notin Whitespace)

\* None is modelled as the empty tuple, a string result as a 1-tuple
None == <<>>

\* command.strip(): leading and trailing whitespace removed
RECURSIVE Strip(_)
Strip(text) ==
    IF text = <<>> THEN text
    ELSE IF Head(text) \in Whitespace THEN Strip(Tail(text))
    ELSE IF text[Len(text)] \in Whitespace THEN Strip(SubSeq(text, 1, Len(text) - 1))
    ELSE text

extract_bash_command_type(content) ==
    IF Openings(content) # {}
    THEN LET words == Split(Strip(MatchGroup(content)))
         IN  IF words # <<>> THEN <<words[1]>> ELSE <<"">>
    ELSE None

(***************************************************************************)
(* The duration marker (process_trajectory_file, lines 79-87)              *)
(***************************************************************************)
\* str.find on tokens: the 1-based position of the first tok, 0 when there is
\* none (Python: -1)
Find(text, tok) ==
    IF \E k \in 1..Len(text) : text[k] = tok
    THEN Min({k \in 1..Len(text) : text[k] = tok})
    ELSE 0

\* text[:-1]: the last character cut off.  Every token but a tag is one
\* character; a cut end tag cannot occur (the slice ends at -1 only when
\* the text holds no end tag).
CutLastChar(text) ==
    IF text = <<>> THEN <<>>
    ELSE IF text[Len(text)] = StartTag
         THEN SubSeq(text, 1, Len(text) - 1) \o <<CutStartTag>>
         ELSE SubSeq(text, 1, Len(text) - 1)

\* user_content[start:end] with start just past the first start tag and end the
\* position of the first end tag; find's -1 for a missing end tag makes the
\* slice end one character before the end of the text
MarkerSlice(user_content) ==
    LET start == Find(user_content, StartTag) + 1
        end   == Find(user_content, EndTag)
    IN  IF end = 0
        THEN CutLastChar(SubSeq(user_content, start, Len(user_content)))
        ELSE SubSeq(user_content, start, end - 1)

\* float(text) accepts, over these tokens: surrounding whitespace, an optional
\* minus sign, digits with at most one point, at least one digit
Unsigned(text) == IF text # <<>> /\ Head(text) = "-" THEN Tail(text) ELSE text

IsFloat(text) ==
    LET body == Unsigned(Strip(text))
    IN  /\ body # <<>>
        /\ \A k \in 1..Len(body) : body[k] \in Digits \cup {"."}
        /\ Cardinality({k \in 1..Len(body) : body[k] = "."}) <= 1
        /\ \E k \in 1..Len(body) : body[k] \in Digits

RECURSIVE DecVal(_)
DecVal(digits) ==
    IF digits = <<>> THEN 0
    ELSE 10 * DecVal(SubSeq(digits, 1, Len(digits) - 1)) + DigitVal(digits[Len(digits)])

\* int(float(text) * 1000): thousandths, truncated towards zero
Millis(text) ==
    LET body  == Unsigned(Strip(text))
        dot   == Find(body, ".")
        whole == IF dot = 0 THEN body ELSE SubSeq(body, 1, dot - 1)
        frac  == IF dot = 0 THEN <<>> ELSE SubSeq(body, dot + 1, Len(body))
        frac3 == SubSeq(frac \o <<"0", "0", "0">>, 1, 3)
        mag   == 1000 * DecVal(whole) + DecVal(frac3)
    IN  IF Head(Strip(text)) = "-" THEN 0 - mag ELSE mag

\* lines 80-87: the default, the marker, the swallowed parse error
ExecutionTime(user_content) ==
    IF Find(user_content, StartTag) # 0
    THEN IF IsFloat(MarkerSlice(user_content))
         THEN Millis(MarkerSlice(user_content))
         ELSE 1
    ELSE 1

(***************************************************************************)
(* Transcripts                                                             *)
(***************************************************************************)
\* a turn: role, content, and extra.response.usage as <<prompt_tokens,
\* completion_tokens>>, or <<>> when the turn carries no usage
Turn(role, content, usage) == [role |-> role, content |-> content, usage |-> usage]

AssistantTurns ==
    { Turn("assistant", <<"done">>, <<3, 1>>),
      Turn("assistant", <<FenceBash, NL, "ls", SP, "-la", NL, Fence>>, <<10, 5>>),
      Turn("assistant", <<FenceBash, NL, NL, Fence>>, <<>>),
      Turn("assistant", <<FenceBash, NL, "NO", NL, Fence>>, <<>>),
      Turn("assistant", <<FenceBash, SP, "ls">>, <<>>),
      Turn("assistant", <<"x", NL, Fence, NL, FenceBash, NL, SP, "cd", SP, "x", NL,
                          FenceBash, NL, "ls", NL, Fence>>, <<7, 2>>) }

UserTurns ==
    { Turn("user", <<"a">>, <<>>),
      Turn("user", <<"a", StartTag, "0", ".", "0", "0", "2", EndTag, NL>>, <<>>),
      Turn("user", <<StartTag, "a", EndTag>>, <<>>),
      Turn("user", <<StartTag, "2", ".", "5", "5">>, <<>>),
      Turn("user", <<EndTag, "2", StartTag>>, <<>>),
      Turn("user", <<StartTag, "-", "1", EndTag>>, <<>>) }

SystemTurns == { Turn("system", <<"a">>, <<>>) }

Turns == AssistantTurns \cup UserTurns \cup SystemTurns

Transcripts == UNION {[1..n -> Turns] : n \in 0..MaxTurns}

(***************************************************************************)
(* Trace events                                                            *)
(***************************************************************************)
LLMEntry(input_tokens, output_tokens, tool_call_needed) ==
    [type |-> "llm", input_token |-> input_tokens, output_token |-> output_tokens,
     tool_call_needed_next |-> tool_call_needed]

ToolEntry(tool_call_needed, execution_time) ==
    [type |-> tool_call_needed, time |-> execution_time]

\* an LLM-call event is the one that carries tool_call_needed_next
IsLLM(e)  == "tool_call_needed_next" \in DOMAIN e
IsTool(e) == "time" \in DOMAIN e

(***************************************************************************)
(* process_trajectory_file: one iteration of the loop over messages        *)
(***************************************************************************)
\* lines 39-44: usage.get(..., 0)
InputTokens(msg)  == IF msg.usage = <<>> THEN 0 ELSE msg.usage[1]
OutputTokens(msg) == IF msg.usage = <<>> THEN 0 ELSE msg.usage[2]

\* lines 47-55: the first word of the bash block, "NO" without one
DetectedTool(content) ==
    IF Find(content, FenceBash) # 0
    THEN LET cmd_type == extract_bash_command_type(content)
         IN  IF cmd_type # None /\ cmd_type # <<"">> THEN cmd_type[1] ELSE NO
    ELSE NO

\* the tool call dropped on the last turn instead
MutSuppressedOnLastTurn(msgs, k, tool_call_needed) ==
    IF k + 1 = Len(msgs) /\ tool_call_needed # NO THEN NO ELSE tool_call_needed

\* lines 57-60: a tool call on the turn that exactly one turn follows is dropped
Suppressed(msgs, k, tool_call_needed) ==
    IF k + 1 = Len(msgs) - 1 /\ tool_call_needed # NO THEN NO ELSE tool_call_needed

\* lines 47-60
ToolCallNeeded(msgs, k) == Suppressed(msgs, k, DetectedTool(msgs[k + 1].content))

\* the tool entry emitted after any LLM entry a user turn follows
MutToolFollowsAnyLLM(msgs, k, tool_call_needed) ==
    /\ k + 1 < Len(msgs)
    /\ msgs[k + 2].role = "user"

\* the tool entry emitted whatever the role of the next turn
MutToolFollowsAnyRole(msgs, k, tool_call_needed) ==
    /\ tool_call_needed # NO
    /\ k + 1 < Len(msgs)

\* lines 72-74: a tool entry follows the LLM entry
ToolFollows(msgs, k, tool_call_needed) ==
    /\ tool_call_needed # NO
    /\ k + 1 < Len(msgs)
    /\ msgs[k + 2].role = "user"

\* lines 36-94: the events the turn at 0-based index k appends
TurnEvents(msgs, k) ==
    LET msg == msgs[k + 1]
        tool_call_needed == ToolCallNeeded(msgs, k)
        llm_entry == LLMEntry(InputTokens(msg), OutputTokens(msg), tool_call_needed)
    IN  IF msg.role # "assistant" THEN <<>>
        ELSE IF ToolFollows(msgs, k, tool_call_needed)
             THEN <<llm_entry,
                    ToolEntry(tool_call_needed, ExecutionTime(msgs[k + 2].content))>>
             ELSE <<llm_entry>>

\* str(job_id): the decimal digits, most significant first
DigitChar(d) ==
    CASE d = 0 -> "0" [] d = 1 -> "1" [] d = 2 -> "2" [] d = 3 -> "3" [] d = 4 -> "4"
      [] d = 5 -> "5" [] d = 6 -> "6" [] d = 7 -> "7" [] d = 8 -> "8" [] d = 9 -> "9"

RECURSIVE Str(_)
Str(n) ==
    IF n < 0 THEN <<"-">> \o Str(0 - n)
    ELSE IF n < 10 THEN <<DigitChar(n)>>
    ELSE Str(n \div 10) \o <<DigitChar(n % 10)>>

\* lines 99-102
TraceEntry(id, events) == [request_id |-> Str(id), trace |-> events]

(***************************************************************************)
(* process_trajectory_file as a state machine                              *)
(***************************************************************************)
JobIds == {1, 12}

MainIdle ==
    /\ listing = {} /\ job_dirs = <<>> /\ idx = 0 /\ traces = <<>>
    /\ log = <<>> /\ outfile = <<>> /\ mpc = "idle"

ExecIdle ==
    /\ call = <<>> /\ child = <<>> /\ elapsed = 0 /\ spawned = 0
    /\ epc = "idle" /\ eresult = <<>>

\* lines 25-32: the file is loaded, trace = [], i = 0
TraceInit ==
    /\ messages \in Transcripts
    /\ job_id \in JobIds
    /\ i = 0
    /\ trace = <<>>
    /\ origin = <<>>
    /\ pc = "loop"
    /\ result = <<>>
    /\ MainIdle
    /\ ExecIdle

\* lines 33-96 for an assistant message
AssistantMessage ==
    /\ pc = "loop"
    /\ i < Len(messages)
    /\ messages[i + 1].role = "assistant"
    /\ trace' = trace \o TurnEvents(messages, i)
    /\ origin' = origin \o [k \in 1..Len(TurnEvents(messages, i)) |-> i]
    /\ i' = i + 1
    /\ UNCHANGED <<messages, job_id, pc, result, mainVars, execVars>>

\* lines 33-37, 96 for any other message
OtherMessage ==
    /\ pc = "loop"
    /\ i < Len(messages)
    /\ messages[i + 1].role # "assistant"
    /\ i' = i + 1
    /\ UNCHANGED <<messages, job_id, trace, origin, pc, result, mainVars, execVars>>

\* lines 98-102
ReturnTrace ==
    /\ pc = "loop"
    /\ i >= Len(messages)
    /\ pc' = "done"
    /\ result' = TraceEntry(job_id, trace)
    /\ UNCHANGED <<messages, job_id, i, trace, origin, mainVars, execVars>>

TraceNext == AssistantMessage \/ OtherMessage \/ ReturnTrace

TraceSpec == TraceInit /\ [][TraceNext]_vars

(***************************************************************************)
(* main: the batch loop                                                    *)
(***************************************************************************)
\* lines 33-96 run to the end: the events of the turns from index k on
RECURSIVE EventsFrom(_, _)
EventsFrom(msgs, k) ==
    IF k >= Len(msgs) THEN <<>>
    ELSE TurnEvents(msgs, k) \o EventsFrom(msgs, k + 1)

\* lines 20-102 on a file that loads
process_trajectory_file(msgs, id) == TraceEntry(id, EventsFrom(msgs, 0))

\* a trajectory file: text that is no JSON, a JSON array, or a JSON object
\* with its messages
TrajFile(json, msgs) == [json |-> json, messages |-> msgs]

\* lines 25-29: json.load raises on text that is no JSON, data.get on a list
Raises(file) == file.json \in {"invalid", "array"}

MainTranscripts ==
    { <<>>,
      << Turn("assistant", <<FenceBash, NL, "ls", SP, "-la", NL, Fence>>, <<10, 5>>),
         Turn("user", <<"a", StartTag, "0", ".", "0", "0", "2", EndTag, NL>>, <<>>),
         Turn("assistant", <<"done">>, <<3, 1>>) >>,
      << Turn("assistant", <<FenceBash, NL, "ls", SP, "-la", NL, Fence>>, <<10, 5>>),
         Turn("user", <<StartTag, "a", EndTag>>, <<>>),
         Turn("system", <<"a">>, <<>>) >> }

\* an entry of the output directory: a plain file, or a directory with the
\* trajectory files its glob finds (none or one)
DirEntry(is_dir, traj_files) == [is_dir |-> is_dir, traj_files |-> traj_files]

DirEntries ==
    { DirEntry(FALSE, <<>>), DirEntry(TRUE, <<>>),
      DirEntry(TRUE, <<TrajFile("invalid", <<>>)>>),
      DirEntry(TRUE, <<TrajFile("array", <<>>)>>) }
    \cup { DirEntry(TRUE, <<TrajFile("object", m)>>) : m \in MainTranscripts }

\* entry names, in the order sorted() gives paths
Names == 1..MaxJobs

\* line 108: sorted(...)
RECURSIVE Sorted(_)
Sorted(S) == IF S = {} THEN <<>> ELSE <<Min(S)>> \o Sorted(S \ {Min(S)})

\* line 108: the directories among the entries, sorted
JobDirs(entries) == Sorted({n \in DOMAIN entries : entries[n].is_dir})

Printed(kind, what) == [kind |-> kind, what |-> what]

\* line 128: progress is printed every 50th job
ProgressEvery == 50

MainInit ==
    /\ listing \in UNION {[D -> DirEntries] : D \in SUBSET Names}
    /\ job_dirs = <<>>
    /\ idx = 0
    /\ traces = <<>>
    /\ log = <<>>
    /\ outfile = <<>>
    /\ mpc = "start"
    /\ messages = <<>> /\ job_id = 0 /\ i = 0 /\ trace = <<>> /\ origin = <<>>
    /\ pc = "idle" /\ result = <<>>
    /\ ExecIdle

\* lines 105-114: list the job directories, start the enumeration at 1
ListJobDirs ==
    /\ mpc = "start"
    /\ job_dirs' = JobDirs(listing)
    /\ log' = log \o <<Printed("found", Len(JobDirs(listing)))>>
    /\ traces' = <<>>
    /\ idx' = 1
    /\ mpc' = "loop"
    /\ UNCHANGED <<listing, outfile, traceVars, execVars>>

CurrentDir == listing[job_dirs[idx]]

\* lines 116-120: no trajectory file, warn and continue
JobWithoutTrajectory ==
    /\ mpc = "loop"
    /\ idx <= Len(job_dirs)
    /\ CurrentDir.traj_files = <<>>
    /\ log' = log \o <<Printed("warning", job_dirs[idx])>>
    /\ idx' = idx + 1
    /\ UNCHANGED <<listing, job_dirs, traces, outfile, mpc, traceVars, execVars>>

\* the request id taken from the number of records collected so far
MutJobProcessedCountsRecords ==
    /\ mpc = "loop"
    /\ idx <= Len(job_dirs)
    /\ CurrentDir.traj_files # <<>>
    /\ ~Raises(CurrentDir.traj_files[1])
    /\ traces' = Append(traces,
                        process_trajectory_file(CurrentDir.traj_files[1].messages,
                                                Len(traces) + 1))
    /\ log' = log
    /\ idx' = idx + 1
    /\ UNCHANGED <<listing, job_dirs, outfile, mpc, traceVars, execVars>>

\* lines 122-129: the file is processed and its entry appended
JobProcessed ==
    /\ mpc = "loop"
    /\ idx <= Len(job_dirs)
    /\ CurrentDir.traj_files # <<>>
    /\ ~Raises(CurrentDir.traj_files[1])
    /\ traces' = Append(traces,
                        process_trajectory_file(CurrentDir.traj_files[1].messages, idx))
    /\ log' = IF idx % ProgressEvery = 0
              THEN log \o <<Printed("progress", idx)>>
              ELSE log
    /\ idx' = idx + 1
    /\ UNCHANGED <<listing, job_dirs, outfile, mpc, traceVars, execVars>>

\* the batch loop left at the first file that raises
MutJobFailedStops ==
    /\ mpc = "loop"
    /\ idx <= Len(job_dirs)
    /\ CurrentDir.traj_files # <<>>
    /\ Raises(CurrentDir.traj_files[1])
    /\ log' = log \o <<Printed("error", job_dirs[idx])>>
    /\ idx' = Len(job_dirs) + 1
    /\ UNCHANGED <<listing, job_dirs, traces, outfile, mpc, traceVars, execVars>>

\* lines 124-125, 130-132: processing raises, report and continue
JobFailed ==
    /\ mpc = "loop"
    /\ idx <= Len(job_dirs)
    /\ CurrentDir.traj_files # <<>>
    /\ Raises(CurrentDir.traj_files[1])
    /\ log' = log \o <<Printed("error", job_dirs[idx])>>
    /\ idx' = idx + 1
    /\ UNCHANGED <<listing, job_dirs, traces, outfile, mpc, traceVars, execVars>>

\* lines 134-140: one line per trace entry, then the count
WriteOutput ==
    /\ mpc = "loop"
    /\ idx > Len(job_dirs)
    /\ outfile' = traces
    /\ log' = log \o <<Printed("generated", Len(traces))>>
    /\ mpc' = "written"
    /\ UNCHANGED <<listing, job_dirs, idx, traces, traceVars, execVars>>

MainNext ==
    ListJobDirs \/ JobWithoutTrajectory \/ JobProcessed \/ JobFailed \/ WriteOutput

MainSpec == MainInit /\ [][MainNext]_vars

(***************************************************************************)
(* LocalEnvironment.execute                                                *)
(***************************************************************************)
\* LocalEnvironmentConfig.timeout
DefaultTimeout == 30

\* the timeout argument: None, or <<seconds>>
TimeoutArgs == {None, <<0>>, <<1>>, <<2>>}

\* config.timeout: the default, or what the constructor was given
ConfigTimeouts == {DefaultTimeout, 0, 2}

\* how long the command runs when nothing stops it
RunTimes == 1..MaxRun \cup {DefaultTimeout, DefaultTimeout + 1}

GetCwd == "/cwd"

\* the timeout argument used whenever it is not None
MutEffectiveTimeoutNotNone(timeout, config_timeout) ==
    IF timeout # None THEN timeout[1] ELSE config_timeout

\* line 31: timeout or self.config.timeout
EffectiveTimeout(timeout, config_timeout) ==
    IF timeout # None /\ timeout[1] # 0 THEN timeout[1] ELSE config_timeout

\* line 23: cwd or self.config.cwd or os.getcwd()
EffectiveCwd(cwd, config_cwd) ==
    IF cwd # "" THEN cwd ELSE IF config_cwd # "" THEN config_cwd ELSE GetCwd

ExecInit ==
    /\ call \in [timeout : TimeoutArgs, config_timeout : ConfigTimeouts,
                 cwd : {"", "/arg"}, config_cwd : {"", "/config"}]
    /\ child \in [runs : RunTimes, returncode : {0, 1}, missing_dirs : {{}, {"/arg"}}]
    /\ elapsed = 0
    /\ spawned = 0
    /\ epc = "called"
    /\ eresult = <<>>
    /\ messages = <<>> /\ job_id = 0 /\ i = 0 /\ trace = <<>> /\ origin = <<>>
    /\ pc = "idle" /\ result = <<>>
    /\ MainIdle

Timeout == EffectiveTimeout(call.timeout, call.config_timeout)

\* lines 23-36: subprocess.run starts the shell in the resolved directory
Spawn ==
    /\ epc = "called"
    /\ EffectiveCwd(call.cwd, call.config_cwd) \notin child.missing_dirs
    /\ spawned' = spawned + 1
    /\ elapsed' = 0
    /\ epc' = "running"
    /\ UNCHANGED <<call, child, eresult, traceVars, mainVars>>

\* lines 23-36: subprocess.run cannot start the shell; the error propagates
SpawnFails ==
    /\ epc = "called"
    /\ EffectiveCwd(call.cwd, call.config_cwd) \in child.missing_dirs
    /\ epc' = "raised"
    /\ eresult' = [error |-> "FileNotFoundError"]
    /\ UNCHANGED <<call, child, elapsed, spawned, traceVars, mainVars>>

\* subprocess.run waits: the child still runs and the timeout has not passed
Tick ==
    /\ epc = "running"
    /\ elapsed < child.runs
    /\ elapsed <= Timeout
    /\ elapsed' = elapsed + 1
    /\ UNCHANGED <<call, child, spawned, epc, eresult, traceVars, mainVars>>

\* lines 37-38: the child exited in time; its exit code is returned as data
ChildExits ==
    /\ epc = "running"
    /\ elapsed = child.runs
    /\ elapsed <= Timeout
    /\ epc' = "returned"
    /\ eresult' = [output |-> "output", returncode |-> child.returncode,
                   execute_time |-> elapsed]
    /\ UNCHANGED <<call, child, elapsed, spawned, traceVars, mainVars>>

\* line 31: the timeout passed; subprocess.run kills the child and raises
TimeoutExpires ==
    /\ epc = "running"
    /\ elapsed > Timeout
    /\ epc' = "raised"
    /\ eresult' = [error |-> "TimeoutExpired"]
    /\ UNCHANGED <<call, child, elapsed, spawned, traceVars, mainVars>>

ExecNext == Spawn \/ SpawnFails \/ Tick \/ ChildExits \/ TimeoutExpires

ExecSpec == ExecInit /\ [][ExecNext]_vars

(***************************************************************************)
(* Properties of the returned trace                                        *)
(***************************************************************************)
Returned == pc = "done"

Max(S) == CHOOSE x \in S : \A y \in S : y <= x

\* 0-based indices of the assistant turns of the transcript
AssistantIndices == {k \in 0..(Len(messages) - 1) : messages[k + 1].role = "assistant"}

\* positions in the trace of the events the turn at index k emitted
EventsOf(k) == {e \in 1..Len(trace) : origin[e] = k}

TriggeringLLMs == {e \in 1..Len(trace) :
                      IsLLM(trace[e]) /\ trace[e].tool_call_needed_next # NO}

ToolEvents == {e \in 1..Len(trace) : IsTool(trace[e])}

\* the turn after the one that emitted event e exists and is a user turn
NextTurnIsUser(e) ==
    /\ origin[e] + 1 < Len(messages)
    /\ messages[origin[e] + 2].role = "user"

\* C1: in the returned trace every tool-execution event is immediately
\* preceded by an LLM-call event whose tool_call_needed_next is not "NO" and
\* equals the tool event's type; so a tool event is never first and never
\* directly follows another tool event.
C1_ToolPrecededByLLM ==
    Returned =>
        \A e \in 1..Len(result.trace) :
            IsTool(result.trace[e]) =>
                /\ e > 1
                /\ IsLLM(result.trace[e - 1])
                /\ ~IsTool(result.trace[e - 1])
                /\ result.trace[e - 1].tool_call_needed_next # NO
                /\ result.trace[e - 1].tool_call_needed_next = result.trace[e].type

\* the scenario of the spec: LLM(10,5,"ls"), Tool("ls", 2), LLM(3,1,"NO")
C1_Witness ==
    /\ Returned
    /\ result.trace = <<LLMEntry(10, 5, "ls"), ToolEntry("ls", 2), LLMEntry(3, 1, NO)>>

\* C2: for a transcript with at least one assistant turn, the last LLM-call
\* event of the returned trace has tool_call_needed_next = "NO", wherever the
\* last assistant turn stands and whatever its bash block holds.
C2_LastLLMNeverTriggers ==
    (Returned /\ AssistantIndices # {}) =>
        LET llms == {e \in 1..Len(result.trace) : IsLLM(result.trace[e])}
        IN  /\ llms # {}
            /\ result.trace[Max(llms)].tool_call_needed_next = NO

\* C3: the LLM-call event of the last assistant turn is the last event of the
\* returned trace; no tool-execution event follows it.
C3_LastAssistantEndsTrace ==
    (Returned /\ AssistantIndices # {}) =>
        /\ result.trace # <<>>
        /\ IsLLM(result.trace[Len(result.trace)])
        /\ origin[Len(result.trace)] = Max(AssistantIndices)

\* C4: when the turn that exactly one turn follows is an assistant turn, its
\* LLM-call event has tool_call_needed_next = "NO" whatever its bash block
\* holds, and it emits no tool-execution event, even when the final turn is a
\* user turn with a duration marker.
C4_SecondToLastSuppressed ==
    (Returned /\ Len(messages) >= 2 /\ messages[Len(messages) - 1].role = "assistant") =>
        \E e \in 1..Len(result.trace) :
            /\ EventsOf(Len(messages) - 2) = {e}
            /\ IsLLM(result.trace[e])
            /\ result.trace[e].tool_call_needed_next = NO

C4_Witness ==
    /\ Returned
    /\ Len(messages) >= 2
    /\ messages[Len(messages) - 1].role = "assistant"
    /\ DetectedTool(messages[Len(messages) - 1].content) = "ls"
    /\ messages[Len(messages)].role = "user"
    /\ ExecutionTime(messages[Len(messages)].content) = 2

\* a decimal number: an optional minus sign, digits with at most one point
IsDecimalNumber(text) ==
    LET body == Unsigned(text)
    IN  /\ body # <<>>
        /\ \A k \in 1..Len(body) : body[k] \in Digits \cup {"."}
        /\ Cardinality({k \in 1..Len(body) : body[k] = "."}) <= 1
        /\ \E k \in 1..Len(body) : body[k] \in Digits

\* the content holds a start tag, a decimal number and an end tag, in a row
HasWellFormedMarker(content) ==
    \E p \in 1..Len(content) : \E q \in (p + 1)..Len(content) :
        /\ content[p] = StartTag
        /\ content[q] = EndTag
        /\ IsDecimalNumber(SubSeq(content, p + 1, q - 1))

\* C5: a tool-execution event whose user turn holds no well-formed duration
\* marker (no start tag, a start tag without an end tag, an end tag before the
\* start tag, or tags around text that is no decimal number) has time 1.
C5_MalformedMarkerGivesSentinel ==
    Returned =>
        \A e \in 1..Len(result.trace) :
            (IsTool(result.trace[e])
                /\ ~HasWellFormedMarker(messages[origin[e] + 2].content))
            => result.trace[e].time = 1

\* C6: every tool-execution event's time is an integer >= 0, also when the
\* duration marker wraps a negative number of seconds.
C6_TimeNonNegative ==
    Returned =>
        \A e \in 1..Len(result.trace) :
            IsTool(result.trace[e]) =>
                result.trace[e].time \in Int /\ result.trace[e].time >= 0

Written == mpc = "written"

\* positions (from 1) in job_dirs of the directories whose file is processed
Succeeds(k) ==
    /\ listing[job_dirs[k]].traj_files # <<>>
    /\ ~Raises(listing[job_dirs[k]].traj_files[1])

OkPositions == Sorted({k \in 1..Len(job_dirs) : Succeeds(k)})

Reported(k) ==
    \E l \in 1..Len(log) :
        log[l] = Printed(IF listing[job_dirs[k]].traj_files = <<>>
                         THEN "warning" ELSE "error", job_dirs[k])

\* C7: a job directory without trajectory file, or whose processing raises,
\* is reported and skipped and the loop goes on: the output holds exactly one
\* record per directory processed, in sorted directory order, and the count
\* printed at the end is the number of records written.
C7_BatchSkipsAndContinues ==
    Written =>
        /\ job_dirs = Sorted({n \in DOMAIN listing : listing[n].is_dir})
        /\ \A k \in 1..Len(job_dirs) : ~Succeeds(k) => Reported(k)
        /\ Len(outfile) = Len(OkPositions)
        /\ \A j \in 1..Len(outfile) :
              outfile[j].trace =
                  EventsFrom(listing[job_dirs[OkPositions[j]]].traj_files[1].messages, 0)
        /\ log[Len(log)] = Printed("generated", Len(outfile))

\* a file that raises and a directory without file, each before a directory
\* that is processed
C7_Witness ==
    /\ Written
    /\ Len(outfile) >= 2
    /\ \E k \in 1..Len(job_dirs) : \E m \in (k + 1)..Len(job_dirs) :
          /\ listing[job_dirs[k]].traj_files # <<>>
          /\ Raises(listing[job_dirs[k]].traj_files[1])
          /\ Succeeds(m)
    /\ \E k \in 1..Len(job_dirs) : \E m \in (k + 1)..Len(job_dirs) :
          /\ listing[job_dirs[k]].traj_files = <<>>
          /\ Succeeds(m)

\* int(request_id)
IdValue(request_id) == DecVal(request_id)

\* C8: the record of the k-th job directory in sorted order carries
\* request_id = str(k), whatever its transcript; the ids of the output are
\* strictly increasing; a skipped directory still uses up its position.
C8_RequestIdIsPosition ==
    Written =>
        /\ Len(outfile) = Len(OkPositions)
        /\ \A j \in 1..Len(outfile) : outfile[j].request_id = Str(OkPositions[j])
        /\ \A j \in 1..Len(outfile) : IdValue(outfile[j].request_id) >= 1
        /\ \A j \in 1..Len(outfile) : \A m \in (j + 1)..Len(outfile) :
              IdValue(outfile[j].request_id) < IdValue(outfile[m].request_id)

\* two records of the same transcript, with ids 2 and 4: not contiguous and
\* not the line numbers
C8_Witness ==
    /\ Written
    /\ Len(outfile) = 2
    /\ outfile[1].request_id = <<"2">>
    /\ outfile[2].request_id = <<"4">>
    /\ outfile[1].trace = outfile[2].trace
    /\ outfile[1].trace # <<>>

(***************************************************************************)
(* Properties of execute                                                   *)
(***************************************************************************)
\* the effective timeout as stated: the argument when given, a 0 counting as
\* not given, otherwise the configured timeout
StatedTimeout ==
    IF call.timeout = None \/ call.timeout = <<0>>
    THEN call.config_timeout
    ELSE call.timeout[1]

====
